---------------------------- MODULE Spec2Model ----------------------------
(***************************************************************************)
(* Model of facility-checkin-pwa/assets/auth.ts: the mock authentication   *)
(* helpers login, verifyToken, logout, generateMockToken, getCurrentUser   *)
(* and isAuthenticated, together with the platform functions they call     *)
(* (btoa, atob, JSON.stringify, JSON.parse, String.prototype.split).       *)
(*                                                                         *)
(* A JavaScript string is a sequence of UTF-16 code units (naturals).      *)
(* A JavaScript value is a record [t, s, n, kv]: t is the type tag, s the  *)
(* code units of a string, n a number (or 0/1 for a boolean), kv the       *)
(* members of an object or array as a sequence of [k, v] records.          *)
(***************************************************************************)
EXTENDS Integers, Sequences, FiniteSets, TLC

VARIABLES
    localStorageDefined, \* typeof localStorage !== 'undefined'
    slot,                \* localStorage entry 'auth_token': [present, val]
    now,                 \* Date.now()
    calls,               \* the async calls in flight or settled, by call id
    last,                \* the last operation that ran, and what it returned
    codec                \* the codec harness: one encode/decode of a User

vars == <<localStorageDefined, slot, now, calls, last, codec>>

(***************************************************************************)
(* String literals of the source, as code units.                           *)
(***************************************************************************)
S_user == <<117, 115, 101, 114>>                       \* 'user'
S_id == <<105, 100>>                                   \* 'id'
S_email == <<101, 109, 97, 105, 108>>                  \* 'email'
S_name == <<110, 97, 109, 101>>                        \* 'name'
S_membershipType == <<109, 101, 109, 98, 101, 114, 115, 104, 105, 112, 84, 121, 112, 101>>
S_memberSince == <<109, 101, 109, 98, 101, 114, 83, 105, 110, 99, 101>>
S_exp == <<101, 120, 112>>                             \* 'exp'
S_alg == <<97, 108, 103>>                              \* 'alg'
S_typ == <<116, 121, 112>>                             \* 'typ'
S_HS256 == <<72, 83, 50, 53, 54>>                      \* 'HS256'
S_JWT == <<74, 87, 84>>                                \* 'JWT'
S_mock_signature == <<109, 111, 99, 107, 45, 115, 105, 103, 110, 97, 116, 117, 114, 101>>
S_user_123 == <<117, 115, 101, 114, 45, 49, 50, 51>>   \* 'user-123'
S_Jane_Doe == <<74, 97, 110, 101, 32, 68, 111, 101>>   \* 'Jane Doe'
S_premium == <<112, 114, 101, 109, 105, 117, 109>>     \* 'premium'
S_basic == <<98, 97, 115, 105, 99>>                    \* 'basic'
S_elite == <<101, 108, 105, 116, 101>>                 \* 'elite'
S_2024_01_15 == <<50, 48, 50, 52, 45, 48, 49, 45, 49, 53>>  \* '2024-01-15'
S_error == <<101, 114, 114, 111, 114>>                 \* 'error'
S_undefined == <<117, 110, 100, 101, 102, 105, 110, 101, 100>>  \* String(undefined)
S_true == <<116, 114, 117, 101>>                       \* 'true'
S_false == <<102, 97, 108, 115, 101>>                  \* 'false'
S_null == <<110, 117, 108, 108>>                       \* 'null'

(***************************************************************************)
(* JavaScript values.                                                      *)
(***************************************************************************)
JsUndefined == [t |-> "undefined", s |-> <<>>, n |-> 0, kv |-> <<>>]
JsNull == [t |-> "null", s |-> <<>>, n |-> 0, kv |-> <<>>]
JsBool(b) == [t |-> "boolean", s |-> <<>>, n |-> IF b THEN 1 ELSE 0, kv |-> <<>>]
\* A number: n is its integer value; s is empty for an integer literal and
\* holds the lexeme of a literal with a fraction or an exponent.
JsNum(n) == [t |-> "number", s |-> <<>>, n |-> n, kv |-> <<>>]
JsStr(s) == [t |-> "string", s |-> s, n |-> 0, kv |-> <<>>]
JsObj(kv) == [t |-> "object", s |-> <<>>, n |-> 0, kv |-> kv]
JsArr(kv) == [t |-> "array", s |-> <<>>, n |-> 0, kv |-> kv]
Member(k, v) == [k |-> k, v |-> v]

\* The own property k of an object's member list (undefined when missing).
RECURSIVE Lookup(_, _, _)
Lookup(kv, k, i) ==
    IF i > Len(kv) THEN JsUndefined
    ELSE IF kv[i].k = k THEN kv[i].v
    ELSE Lookup(kv, k, i + 1)

HasKey(kv, k) == \E i \in 1..Len(kv) : kv[i].k = k

\* Defining property k: an existing key keeps its place and takes the new
\* value (JSON.parse with a repeated key keeps the last value).
SetProp(kv, k, v) ==
    IF HasKey(kv, k)
    THEN [i \in 1..Len(kv) |-> IF kv[i].k = k THEN Member(k, v) ELSE kv[i]]
    ELSE Append(kv, Member(k, v))

(***************************************************************************)
(* btoa and atob (WHATWG forgiving-base64).                                *)
(***************************************************************************)
Fail == [ok |-> FALSE, v |-> <<>>]
Ok(v) == [ok |-> TRUE, v |-> v]

\* The base64 alphabet: A-Z a-z 0-9 + /
B64Char(n) ==
    IF n < 26 THEN 65 + n
    ELSE IF n < 52 THEN 97 + (n - 26)
    ELSE IF n < 62 THEN 48 + (n - 52)
    ELSE IF n = 62 THEN 43
    ELSE 47

IsB64Char(c) ==
    \/ c >= 65 /\ c <= 90
    \/ c >= 97 /\ c <= 122
    \/ c >= 48 /\ c <= 57
    \/ c = 43
    \/ c = 47

B64Val(c) ==
    IF c >= 65 /\ c <= 90 THEN c - 65
    ELSE IF c >= 97 /\ c <= 122 THEN c - 97 + 26
    ELSE IF c >= 48 /\ c <= 57 THEN c - 48 + 52
    ELSE IF c = 43 THEN 62
    ELSE 63

\* The base64 text of the bytes s: character k belongs to group (k-1) \div 4
\* of three bytes; a missing byte counts as 0 and its characters are '='.
BtoaChars(s) ==
    LET n == Len(s)
        byte(i) == IF i <= n THEN s[i] ELSE 0
    IN [k \in 1..(4 * ((n + 2) \div 3)) |->
           LET g == (k - 1) \div 4
               p == (k - 1) % 4
               b1 == byte(3 * g + 1)
               b2 == byte(3 * g + 2)
               b3 == byte(3 * g + 3)
           IN IF p = 0 THEN B64Char(b1 \div 4)
              ELSE IF p = 1 THEN B64Char((b1 % 4) * 16 + b2 \div 16)
              ELSE IF p = 2 THEN (IF 3 * g + 2 > n THEN 61
                                  ELSE B64Char((b2 % 16) * 4 + b3 \div 64))
              ELSE (IF 3 * g + 3 > n THEN 61 ELSE B64Char(b3 % 64))]

\* btoa(s): InvalidCharacterError when s holds a code unit above U+00FF.
Btoa(s) ==
    IF \E i \in 1..Len(s) : s[i] > 255 THEN Fail
    ELSE Ok(BtoaChars(s))

IsAsciiWhitespace(c) == c \in {9, 10, 12, 13, 32}

NotAsciiWhitespace(c) == ~IsAsciiWhitespace(c)

StripWhitespace(s) == SelectSeq(s, NotAsciiWhitespace)

StripPadding(s) ==
    IF Len(s) > 0 /\ Len(s) % 4 = 0 /\ s[Len(s)] = 61
    THEN IF s[Len(s) - 1] = 61
         THEN SubSeq(s, 1, Len(s) - 2)
         ELSE SubSeq(s, 1, Len(s) - 1)
    ELSE s

\* The bytes of the base64 characters d: byte k belongs to group
\* (k-1) \div 3 of four characters; a last group of two characters gives one
\* byte and of three characters two bytes, the bits left over are dropped.
AtobBytes(d) ==
    LET n == Len(d)
        tail == IF n % 4 = 2 THEN 1 ELSE IF n % 4 = 3 THEN 2 ELSE 0
    IN [k \in 1..(3 * (n \div 4) + tail) |->
           LET g == (k - 1) \div 3
               p == (k - 1) % 3
               a == B64Val(d[4 * g + 1])
               b == B64Val(d[4 * g + 2])
               c == B64Val(d[4 * g + 3])
               e == B64Val(d[4 * g + 4])
           IN IF p = 0 THEN a * 4 + b \div 16
              ELSE IF p = 1 THEN (b % 16) * 16 + c \div 4
              ELSE (c % 4) * 64 + e]

\* atob(s): InvalidCharacterError when, whitespace and padding removed, the
\* length is 1 modulo 4 or a character is outside the alphabet.
Atob(s) ==
    LET d == StripPadding(StripWhitespace(s)) IN
    IF Len(d) % 4 = 1 THEN Fail
    ELSE IF \E i \in 1..Len(d) : ~IsB64Char(d[i]) THEN Fail
    ELSE Ok(AtobBytes(d))

(***************************************************************************)
(* JSON.stringify.                                                         *)
(***************************************************************************)
HexDigit(n) == IF n < 10 THEN 48 + n ELSE 87 + n

\* \uXXXX with lowercase hexadecimal digits
UnicodeEscape(c) ==
    << 92, 117, HexDigit(c \div 4096), HexDigit((c \div 256) % 16),
       HexDigit((c \div 16) % 16), HexDigit(c % 16) >>

IsHighSurrogate(c) == c >= 55296 /\ c <= 56319
IsLowSurrogate(c) == c >= 56320 /\ c <= 57343

\* The concatenation of the sequences ss[lo..hi]
RECURSIVE Flatten(_, _, _)
Flatten(ss, lo, hi) ==
    IF lo > hi THEN <<>>
    ELSE IF lo = hi THEN ss[lo]
    ELSE LET mid == (lo + hi) \div 2
         IN Flatten(ss, lo, mid) \o Flatten(ss, mid + 1, hi)

\* QuoteJSONString: what the code unit at i is written as.  A high
\* surrogate followed by a low one is a pair and both are written as they
\* are; a surrogate outside a pair is escaped.
QuoteAt(s, i) ==
    LET c == s[i] IN
    IF c = 34 THEN <<92, 34>>
    ELSE IF c = 92 THEN <<92, 92>>
    ELSE IF c = 8 THEN <<92, 98>>
    ELSE IF c = 12 THEN <<92, 102>>
    ELSE IF c = 10 THEN <<92, 110>>
    ELSE IF c = 13 THEN <<92, 114>>
    ELSE IF c = 9 THEN <<92, 116>>
    ELSE IF c < 32 THEN UnicodeEscape(c)
    ELSE IF IsHighSurrogate(c)
         THEN (IF i < Len(s) /\ IsLowSurrogate(s[i + 1]) THEN <<c>> ELSE UnicodeEscape(c))
    ELSE IF IsLowSurrogate(c)
         THEN (IF i > 1 /\ IsHighSurrogate(s[i - 1]) THEN <<c>> ELSE UnicodeEscape(c))
    ELSE <<c>>

Quote(s) == <<34>> \o Flatten([i \in 1..Len(s) |-> QuoteAt(s, i)], 1, Len(s)) \o <<34>>

\* Number::toString of a non-negative integer below 10^21: its decimal digits
RECURSIVE Digits(_)
Digits(n) == IF n < 10 THEN <<48 + n>> ELSE Append(Digits(n \div 10), 48 + (n % 10))

NumberToString(n) == IF n < 0 THEN <<45>> \o Digits(-n) ELSE Digits(n)

\* SerializeJSONProperty; a member whose value is undefined is left out of
\* an object and written as null in an array.
RECURSIVE JsonStringify(_)
RECURSIVE StringifyMembers(_, _, _, _)
StringifyMembers(kv, i, isObject, acc) ==
    IF i > Len(kv) THEN acc
    ELSE IF isObject /\ kv[i].v.t = "undefined"
         THEN StringifyMembers(kv, i + 1, isObject, acc)
    ELSE LET sep == IF acc = <<>> THEN <<>> ELSE <<44>>
             key == IF isObject THEN Quote(kv[i].k) \o <<58>> ELSE <<>>
             val == IF kv[i].v.t = "undefined" THEN S_null ELSE JsonStringify(kv[i].v)
         IN StringifyMembers(kv, i + 1, isObject, acc \o sep \o key \o val)

JsonStringify(v) ==
    IF v.t = "string" THEN Quote(v.s)
    ELSE IF v.t = "number" THEN (IF v.s = <<>> THEN NumberToString(v.n) ELSE v.s)
    ELSE IF v.t = "boolean" THEN (IF v.n = 1 THEN S_true ELSE S_false)
    ELSE IF v.t = "null" THEN S_null
    ELSE IF v.t = "object" THEN <<123>> \o StringifyMembers(v.kv, 1, TRUE, <<>>) \o <<125>>
    ELSE <<91>> \o StringifyMembers(v.kv, 1, FALSE, <<>>) \o <<93>>

(***************************************************************************)
(* JSON.parse: a parse step returns [ok, v, i], i the index after the      *)
(* text consumed.  ok = FALSE is the SyntaxError.                          *)
(***************************************************************************)
ParseFail == [ok |-> FALSE, v |-> JsUndefined, i |-> 0]
Parsed(v, i) == [ok |-> TRUE, v |-> v, i |-> i]

IsJsonWhitespace(c) == c \in {9, 10, 13, 32}
IsDigit(c) == c >= 48 /\ c <= 57
IsHex(c) == IsDigit(c) \/ (c >= 97 /\ c <= 102) \/ (c >= 65 /\ c <= 70)
HexVal(c) == IF IsDigit(c) THEN c - 48 ELSE IF c >= 97 THEN c - 87 ELSE c - 55

RECURSIVE SkipWs(_, _)
SkipWs(s, i) ==
    IF i <= Len(s) /\ IsJsonWhitespace(s[i]) THEN SkipWs(s, i + 1) ELSE i

At(s, i, c) == i <= Len(s) /\ s[i] = c

\* The characters of a string literal after its opening quote
RECURSIVE ParseStringFrom(_, _, _)
ParseStringFrom(s, i, acc) ==
    IF i > Len(s) THEN ParseFail
    ELSE LET c == s[i] IN
         IF c = 34 THEN Parsed(JsStr(acc), i + 1)
         ELSE IF c < 32 THEN ParseFail
         ELSE IF c # 92 THEN ParseStringFrom(s, i + 1, Append(acc, c))
         ELSE IF i + 1 > Len(s) THEN ParseFail
         ELSE LET e == s[i + 1] IN
              IF e \in {34, 92, 47} THEN ParseStringFrom(s, i + 2, Append(acc, e))
              ELSE IF e = 98 THEN ParseStringFrom(s, i + 2, Append(acc, 8))
              ELSE IF e = 102 THEN ParseStringFrom(s, i + 2, Append(acc, 12))
              ELSE IF e = 110 THEN ParseStringFrom(s, i + 2, Append(acc, 10))
              ELSE IF e = 114 THEN ParseStringFrom(s, i + 2, Append(acc, 13))
              ELSE IF e = 116 THEN ParseStringFrom(s, i + 2, Append(acc, 9))
              ELSE IF e = 117 /\ i + 5 <= Len(s)
                      /\ \A j \in (i + 2)..(i + 5) : IsHex(s[j])
                   THEN ParseStringFrom(s, i + 6,
                            Append(acc, HexVal(s[i + 2]) * 4096 + HexVal(s[i + 3]) * 256
                                        + HexVal(s[i + 4]) * 16 + HexVal(s[i + 5])))
              ELSE ParseFail

\* The index after the run of digits starting at i
RECURSIVE DigitsEnd(_, _)
DigitsEnd(s, i) == IF i <= Len(s) /\ IsDigit(s[i]) THEN DigitsEnd(s, i + 1) ELSE i

RECURSIVE DigitsValue(_, _, _, _)
DigitsValue(s, i, j, acc) ==
    IF i >= j THEN acc ELSE DigitsValue(s, i + 1, j, acc * 10 + (s[i] - 48))

\* number: -? (0 | [1-9][0-9]*) (. [0-9]+)? ([eE] [+-]? [0-9]+)?
ParseNumber(s, i) ==
    LET neg == At(s, i, 45)
        d0 == IF neg THEN i + 1 ELSE i
        d1 == IF At(s, d0, 48) THEN d0 + 1 ELSE DigitsEnd(s, d0)
        f0 == d1 + 1
        f1 == IF At(s, d1, 46) THEN DigitsEnd(s, f0) ELSE d1
        fracOk == At(s, d1, 46) => f1 > f0
        hasExp == At(s, f1, 101) \/ At(s, f1, 69)
        e0 == IF At(s, f1 + 1, 43) \/ At(s, f1 + 1, 45) THEN f1 + 2 ELSE f1 + 1
        e1 == IF hasExp THEN DigitsEnd(s, e0) ELSE f1
        expOk == hasExp => e1 > e0
        int == DigitsValue(s, d0, d1, 0)
    IN
    IF d1 = d0 \/ ~fracOk \/ ~expOk THEN ParseFail
    ELSE Parsed([t |-> "number",
                 s |-> IF e1 > d1 THEN SubSeq(s, i, e1 - 1) ELSE <<>>,
                 n |-> IF neg THEN -int ELSE int,
                 kv |-> <<>>], e1)

ParseLiteral(s, i, word, v) ==
    IF i + Len(word) - 1 <= Len(s) /\ SubSeq(s, i, i + Len(word) - 1) = word
    THEN Parsed(v, i + Len(word))
    ELSE ParseFail

RECURSIVE ParseValue(_, _)
RECURSIVE ParseMembers(_, _, _)
RECURSIVE ParseElements(_, _, _)

\* i is at the first character of a member's key
ParseMembers(s, i, acc) ==
    IF ~At(s, i, 34) THEN ParseFail
    ELSE LET k == ParseStringFrom(s, i + 1, <<>>) IN
         IF ~k.ok THEN ParseFail
         ELSE LET c == SkipWs(s, k.i) IN
              IF ~At(s, c, 58) THEN ParseFail
              ELSE LET v == ParseValue(s, SkipWs(s, c + 1)) IN
                   IF ~v.ok THEN ParseFail
                   ELSE LET n == SkipWs(s, v.i)
                            acc2 == SetProp(acc, k.v.s, v.v)
                        IN IF At(s, n, 44) THEN ParseMembers(s, SkipWs(s, n + 1), acc2)
                           ELSE IF At(s, n, 125) THEN Parsed(JsObj(acc2), n + 1)
                           ELSE ParseFail

\* i is at the first character of an element
ParseElements(s, i, acc) ==
    LET v == ParseValue(s, i) IN
    IF ~v.ok THEN ParseFail
    ELSE LET n == SkipWs(s, v.i)
             acc2 == Append(acc, Member(<<>>, v.v))
         IN IF At(s, n, 44) THEN ParseElements(s, SkipWs(s, n + 1), acc2)
            ELSE IF At(s, n, 93) THEN Parsed(JsArr(acc2), n + 1)
            ELSE ParseFail

\* i is at the first character of a value
ParseValue(s, i) ==
    IF i > Len(s) THEN ParseFail
    ELSE LET c == s[i] IN
         IF c = 123 THEN
             (LET n == SkipWs(s, i + 1) IN
              IF At(s, n, 125) THEN Parsed(JsObj(<<>>), n + 1)
              ELSE ParseMembers(s, n, <<>>))
         ELSE IF c = 91 THEN
             (LET n == SkipWs(s, i + 1) IN
              IF At(s, n, 93) THEN Parsed(JsArr(<<>>), n + 1)
              ELSE ParseElements(s, n, <<>>))
         ELSE IF c = 34 THEN ParseStringFrom(s, i + 1, <<>>)
         ELSE IF c = 45 \/ IsDigit(c) THEN ParseNumber(s, i)
         ELSE IF c = 116 THEN ParseLiteral(s, i, S_true, JsBool(TRUE))
         ELSE IF c = 102 THEN ParseLiteral(s, i, S_false, JsBool(FALSE))
         ELSE IF c = 110 THEN ParseLiteral(s, i, S_null, JsNull)
         ELSE ParseFail

\* JSON.parse(text): one value, whitespace around it, nothing after it
JsonParse(s) ==
    LET r == ParseValue(s, SkipWs(s, 1)) IN
    IF r.ok /\ SkipWs(s, r.i) = Len(s) + 1 THEN r ELSE ParseFail

(***************************************************************************)
(* auth.ts                                                                 *)
(***************************************************************************)
EXP_MS == 3600000

\* interface User
MembershipTypes == {S_basic, S_premium, S_elite}
UserFields == <<S_id, S_email, S_name, S_membershipType, S_memberSince>>

User(id, email, name, membershipType, memberSince) ==
    JsObj(<< Member(S_id, JsStr(id)), Member(S_email, JsStr(email)),
             Member(S_name, JsStr(name)),
             Member(S_membershipType, JsStr(membershipType)),
             Member(S_memberSince, JsStr(memberSince)) >>)

\* A value that is a User: an object with the five fields, all strings,
\* the membership type one of the three.
IsUser(v) ==
    /\ v.t = "object"
    /\ \A i \in 1..Len(UserFields) : Lookup(v.kv, UserFields[i], 1).t = "string"
    /\ Lookup(v.kv, S_membershipType, 1).s \in MembershipTypes

\* String.prototype.split(sep) for a one-character separator: the pieces
\* between the separators, one more than there are separators.
Split(s, sep) ==
    LET at == {i \in 1..Len(s) : s[i] = sep}
        \* the position of the k-th separator; 0 and Len(s) + 1 bound the string
        pos(k) == IF k = 0 THEN 0
                  ELSE IF k > Cardinality(at) THEN Len(s) + 1
                  ELSE CHOOSE i \in at : Cardinality({j \in at : j < i}) = k - 1
    IN [k \in 1..(Cardinality(at) + 1) |-> SubSeq(s, pos(k - 1) + 1, pos(k) - 1)]

\* ToString of the argument of atob: an array index out of range is undefined
JsToString(v) == IF v.t = "undefined" THEN S_undefined ELSE v.s

\* payload.user: TypeError on null, undefined on a primitive or array
GetUser(payload) ==
    IF payload.t = "null" THEN [threw |-> TRUE, val |-> JsUndefined]
    ELSE IF payload.t = "object"
         THEN [threw |-> FALSE, val |-> Lookup(payload.kv, S_user, 1)]
    ELSE [threw |-> FALSE, val |-> JsUndefined]

\* const payload = JSON.parse(atob(token.split('.')[1])); return payload.user;
\* threw = TRUE when any of the three throws.
DecodeUser(token) ==
    LET segs == Split(token, 46)
        seg == IF Len(segs) >= 2 THEN JsStr(segs[2]) ELSE JsUndefined
        bytes == Atob(JsToString(seg))
        payload == JsonParse(bytes.v)
    IN
    IF ~bytes.ok THEN [threw |-> TRUE, val |-> JsUndefined]
    ELSE IF ~payload.ok THEN [threw |-> TRUE, val |-> JsUndefined]
    ELSE GetUser(payload.v)

\* generateMockToken(user) at Date.now() = t; ok = FALSE when btoa throws
generateMockToken(user, t) ==
    LET header == Btoa(JsonStringify(
            JsObj(<< Member(S_alg, JsStr(S_HS256)), Member(S_typ, JsStr(S_JWT)) >>)))
        payload == Btoa(JsonStringify(
            JsObj(<< Member(S_user, user), Member(S_exp, JsNum(t + EXP_MS)) >>)))
        signature == S_mock_signature
    IN
    IF ~header.ok \/ ~payload.ok THEN Fail
    ELSE Ok(header.v \o <<46>> \o payload.v \o <<46>> \o signature)

\* What a call settles to
Pending == [kind |-> "pending", err |-> "", token |-> <<>>, val |-> JsUndefined]
Rejected(err) == [kind |-> "rejected", err |-> err, token |-> <<>>, val |-> JsUndefined]
Resolved(token, val) == [kind |-> "resolved", err |-> "", token |-> token, val |-> val]

\* login with the password looked at only after the token is made
login_body_late_check(email, password, t) ==
    LET user == User(S_user_123, email, S_Jane_Doe, S_premium, S_2024_01_15)
        token == generateMockToken(user, t)
    IN IF ~token.ok THEN Rejected("InvalidCharacterError")
       ELSE IF password = S_error THEN Rejected("Invalid credentials")
       ELSE Resolved(token.v, user)

\* login(email, password), from the end of its delay, at Date.now() = t
login_body(email, password, t) ==
    IF password = S_error THEN Rejected("Invalid credentials")
    ELSE LET user == User(S_user_123, email, S_Jane_Doe, S_premium, S_2024_01_15)
             token == generateMockToken(user, t)
         IN IF ~token.ok THEN Rejected("InvalidCharacterError")
            ELSE Resolved(token.v, user)

\* verifyToken(token), from the end of its delay
verifyToken_body(token) ==
    LET r == DecodeUser(token) IN
    IF r.threw THEN Rejected("Invalid token") ELSE Resolved(<<>>, r.val)

\* localStorage.getItem('auth_token')
GetItem(s) == IF s.present THEN JsStr(s.val) ELSE JsNull

\* !token
Falsy(v) == v.t \in {"null", "undefined"} \/ (v.t = "string" /\ v.s = <<>>)

getCurrentUser(defined, s) ==
    IF ~defined THEN JsNull
    ELSE LET token == GetItem(s) IN
         IF Falsy(token) THEN JsNull
         ELSE LET r == DecodeUser(token.s) IN
              IF r.threw THEN JsNull ELSE r.val

isAuthenticated(defined, s) == getCurrentUser(defined, s) # JsNull

(***************************************************************************)
(* The inputs the callers draw from.                                       *)
(***************************************************************************)
MaxCalls == 1   \* async calls in flight or settled at once
MaxTicks == 1   \* advances of the clock

E_ascii == <<97, 64, 98, 46, 99, 111, 109>>            \* 'a@b.com'
E_latin1 == <<233, 34, 92, 10, 64, 98>>                \* 'e-acute " \ LF @b'
E_wide == <<26446, 64, 98, 46, 99, 111, 109>>          \* U+674E '@b.com'
Emails == {E_ascii, E_latin1, E_wide}
LoginEmails == {E_ascii, E_wide}

S_pw == <<112, 119>>                                   \* 'pw'
S_Error == <<69, 114, 114, 111, 114>>                  \* 'Error'
Passwords == {S_pw, S_error, S_Error}

\* A token login returns, and strings made from it and from other payloads
SampleUser == User(S_user_123, E_ascii, S_Jane_Doe, S_premium, S_2024_01_15)
SampleToken == generateMockToken(SampleUser, 0).v
SamplePayload == Split(SampleToken, 46)[2]
Segments(h, payload, sig) == h \o <<46>> \o payload \o <<46>> \o sig

T_empty == <<>>
T_garbage == <<103, 97, 114, 98, 97, 103, 101>>        \* 'garbage'
T_two == <<120, 46>> \o SamplePayload                  \* 'x.<payload>'
T_four == SampleToken \o <<46, 120>>                   \* '<token>.x'
T_notBase64 == <<104, 46, 64, 64, 64, 64, 46, 115>>    \* 'h.@@@@.s'
\* 'not json'
T_notJson == Segments(<<104>>, Btoa(<<110, 111, 116, 32, 106, 115, 111, 110>>).v, <<115>>)
\* '{}'
T_noUser == Segments(<<104>>, Btoa(<<123, 125>>).v, <<115>>)
\* '{"user":5}'
T_userNumber == Segments(<<104>>,
    Btoa(<<123, 34, 117, 115, 101, 114, 34, 58, 53, 125>>).v, <<115>>)
\* '{"user":null}'
T_userNull == Segments(<<104>>,
    Btoa(<<123, 34, 117, 115, 101, 114, 34, 58, 110, 117, 108, 108, 125>>).v, <<115>>)
\* 'null'
T_jsonNull == Segments(<<104>>, Btoa(S_null).v, <<115>>)
\* '{"user":{"id":"x"}}'
T_partialUser == Segments(<<104>>,
    Btoa(<<123, 34, 117, 115, 101, 114, 34, 58, 123, 34, 105, 100, 34, 58, 34, 120, 34,
           125, 125>>).v, <<115>>)

MalformedTokens ==
    { T_empty, T_garbage, T_two, T_four, T_notBase64, T_notJson, T_noUser,
      T_userNumber, T_userNull, T_jsonNull, T_partialUser }

(***************************************************************************)
(* The state machine: the module's operations and its caller.              *)
(*                                                                         *)
(* login and verifyToken await randomDelay(min, max), a timer of some      *)
(* duration in [min, max]: a call is one step up to the await (pc =        *)
(* "delay") and one step, at any later point, from the timer's firing to   *)
(* the return or throw (pc = "settled", `at` the time of a verification).  *)
(* The other operations are synchronous, one step each.                    *)
(***************************************************************************)
Absent == [present |-> FALSE, val |-> <<>>]
Stored(token) == [present |-> TRUE, val |-> token]

IdleCall == [op |-> "idle", pc |-> "idle", email |-> <<>>, password |-> <<>>,
             token |-> <<>>, at |-> 0, out |-> Pending]
CodecIdle == [pc |-> "idle", user |-> JsUndefined, enc |-> Fail,
              dec |-> [threw |-> FALSE, val |-> JsUndefined]]

Ran(op, val) == [op |-> op, val |-> val]

CallIds == 1..MaxCalls
\* A new call takes the first free call id
FreeId(c) == calls[c].op = "idle" /\ \A d \in 1..(c - 1) : calls[d].op # "idle"

\* The tokens the caller holds: from the logins that resolved, and the one
\* read back from localStorage
HeldTokens ==
    { calls[c].out.token : c \in {d \in CallIds : calls[d].op = "login"
                                                  /\ calls[d].out.kind = "resolved"} }
    \cup (IF slot.present THEN {slot.val} ELSE {})

Init ==
    /\ localStorageDefined \in BOOLEAN
    /\ slot = Absent
    /\ now = 0
    /\ calls = [c \in CallIds |-> IdleCall]
    /\ last = Ran("caller", JsUndefined)
    /\ codec = CodecIdle

\* login(email, password) up to `await randomDelay(500, 2000)`
LoginCall(email, password) ==
    /\ \E c \in CallIds :
        /\ FreeId(c)
        /\ calls' = [calls EXCEPT ![c] =
                [IdleCall EXCEPT !.op = "login", !.pc = "delay",
                                 !.email = email, !.password = password]]
    /\ last' = Ran("login", JsUndefined)
    /\ UNCHANGED <<localStorageDefined, slot, now, codec>>

\* login from the end of its delay to its return or throw
LoginResume(c) ==
    /\ calls[c].op = "login"
    /\ calls[c].pc = "delay"
    /\ calls' = [calls EXCEPT ![c].pc = "settled",
                              ![c].out = login_body(calls[c].email, calls[c].password, now)]
    /\ last' = Ran("login", JsUndefined)
    /\ UNCHANGED <<localStorageDefined, slot, now, codec>>

\* verifyToken(token) up to `await randomDelay(100, 500)`
VerifyTokenCall(token) ==
    /\ \E c \in CallIds :
        /\ FreeId(c)
        /\ calls' = [calls EXCEPT ![c] =
                [IdleCall EXCEPT !.op = "verifyToken", !.pc = "delay", !.token = token]]
    /\ last' = Ran("verifyToken", JsUndefined)
    /\ UNCHANGED <<localStorageDefined, slot, now, codec>>

\* payload.exp of a token whose payload decodes to an object with a number exp
ExpOf(token) ==
    LET bytes == Atob(JsToString(JsStr(Split(token, 46)[2])))
        payload == JsonParse(bytes.v)
    IN Lookup(payload.v.kv, S_exp, 1)

HasExp(token) ==
    /\ Len(Split(token, 46)) >= 2
    /\ Atob(Split(token, 46)[2]).ok
    /\ JsonParse(Atob(Split(token, 46)[2]).v).ok
    /\ ExpOf(token).t = "number"

\* verifyToken rejecting a token whose exp has passed
VerifyTokenResume_expiry(c) ==
    /\ calls[c].op = "verifyToken"
    /\ calls[c].pc = "delay"
    /\ calls' = [calls EXCEPT ![c].pc = "settled", ![c].at = now,
                              ![c].out = IF HasExp(calls[c].token)
                                            /\ ExpOf(calls[c].token).n < now
                                         THEN Rejected("Invalid token")
                                         ELSE verifyToken_body(calls[c].token)]
    /\ last' = Ran("verifyToken", JsUndefined)
    /\ UNCHANGED <<localStorageDefined, slot, now, codec>>

\* verifyToken from the end of its delay to its return or throw
VerifyTokenResume(c) ==
    /\ calls[c].op = "verifyToken"
    /\ calls[c].pc = "delay"
    /\ calls' = [calls EXCEPT ![c].pc = "settled", ![c].at = now,
                              ![c].out = verifyToken_body(calls[c].token)]
    /\ last' = Ran("verifyToken", JsUndefined)
    /\ UNCHANGED <<localStorageDefined, slot, now, codec>>

\* logout clearing the stored token
LogoutCall_clears ==
    /\ last' = Ran("logout", JsUndefined)
    /\ slot' = Absent
    /\ UNCHANGED <<localStorageDefined, now, calls, codec>>

\* logout(): return;
LogoutCall ==
    /\ last' = Ran("logout", JsUndefined)
    /\ UNCHANGED <<localStorageDefined, slot, now, calls, codec>>

GetCurrentUserCall ==
    /\ last' = Ran("getCurrentUser", getCurrentUser(localStorageDefined, slot))
    /\ UNCHANGED <<localStorageDefined, slot, now, calls, codec>>

IsAuthenticatedCall ==
    /\ last' = Ran("isAuthenticated", JsBool(isAuthenticated(localStorageDefined, slot)))
    /\ UNCHANGED <<localStorageDefined, slot, now, calls, codec>>

\* The caller: localStorage.setItem('auth_token', token)
SetItem(token) ==
    /\ localStorageDefined
    /\ slot' = Stored(token)
    /\ last' = Ran("caller", JsUndefined)
    /\ UNCHANGED <<localStorageDefined, now, calls, codec>>

\* The caller: localStorage.removeItem('auth_token')
RemoveItem ==
    /\ localStorageDefined
    /\ slot.present
    /\ slot' = Absent
    /\ last' = Ran("caller", JsUndefined)
    /\ UNCHANGED <<localStorageDefined, now, calls, codec>>

\* The caller drops the result of a settled call
Release(c) ==
    /\ calls[c].pc = "settled"
    /\ calls' = [calls EXCEPT ![c] = IdleCall]
    /\ last' = Ran("caller", JsUndefined)
    /\ UNCHANGED <<localStorageDefined, slot, now, codec>>

\* Time passes: the life of a token and a millisecond
Tick ==
    /\ now < MaxTicks * (EXP_MS + 1)
    /\ now' = now + EXP_MS + 1
    /\ last' = Ran("caller", JsUndefined)
    /\ UNCHANGED <<localStorageDefined, slot, calls, codec>>

\* The module under a caller that logs in, stores and verifies the tokens
\* it was given, and lets time pass.
Next ==
    \/ \E e \in LoginEmails, p \in Passwords : LoginCall(e, p)
    \/ \E c \in CallIds : LoginResume(c)
    \/ \E t \in {T_garbage} \cup HeldTokens : VerifyTokenCall(t)
    \/ \E c \in CallIds : VerifyTokenResume(c)
    \/ LogoutCall
    \/ GetCurrentUserCall
    \/ IsAuthenticatedCall
    \/ \E t \in {T_garbage} \cup HeldTokens : SetItem(t)
    \/ RemoveItem
    \/ \E c \in CallIds : Release(c)
    \/ Tick

Spec == Init /\ [][Next]_vars

\* The lookups and the verification under a caller that stores and passes
\* arbitrary strings.
NextLookup ==
    \/ \E t \in MalformedTokens \cup {SampleToken} : SetItem(t)
    \/ RemoveItem
    \/ \E t \in MalformedTokens \cup {SampleToken} : VerifyTokenCall(t)
    \/ \E c \in CallIds : VerifyTokenResume(c)
    \/ \E c \in CallIds : Release(c)
    \/ LogoutCall
    \/ GetCurrentUserCall
    \/ IsAuthenticatedCall

SpecLookup == Init /\ [][NextLookup]_vars

(***************************************************************************)
(* The token codec on its own: one User is encoded by generateMockToken    *)
(* and the token decoded as verifyToken and getCurrentUser decode it.      *)
(***************************************************************************)
Ids == {S_user_123, <<>>}
Names == {S_Jane_Doe, <<74, 111, 115, 233>>, <<26446>>}   \* 'Jose' with e-acute; U+674E
MemberSinces == {S_2024_01_15, <<34, 125>>}               \* '"}'
Users ==
    { User(id, email, name, type, since) :
        id \in Ids, email \in Emails, name \in Names,
        type \in MembershipTypes, since \in MemberSinces }

InitCodec ==
    /\ localStorageDefined = TRUE
    /\ slot = Absent
    /\ now \in {0, EXP_MS}
    /\ calls = [c \in CallIds |-> IdleCall]
    /\ last = Ran("caller", JsUndefined)
    /\ codec \in {[CodecIdle EXCEPT !.pc = "input", !.user = u] : u \in Users}

Encode ==
    /\ codec.pc = "input"
    /\ codec' = [codec EXCEPT !.pc = "encoded",
                              !.enc = generateMockToken(codec.user, now)]
    /\ UNCHANGED <<localStorageDefined, slot, now, calls, last>>

Decode ==
    /\ codec.pc = "encoded"
    /\ codec.enc.ok
    /\ codec' = [codec EXCEPT !.pc = "decoded", !.dec = DecodeUser(codec.enc.v)]
    /\ UNCHANGED <<localStorageDefined, slot, now, calls, last>>

NextCodec == Encode \/ Decode

SpecCodec == InitCodec /\ [][NextCodec]_vars

(***************************************************************************)
(* The claims.                                                             *)
(***************************************************************************)
LoginSettled(c) == calls[c].op = "login" /\ calls[c].pc = "settled"
VerifySettled(c) == calls[c].op = "verifyToken" /\ calls[c].pc = "settled"
InvalidToken == Rejected("Invalid token")
NumSegments(token) == Len(Split(token, 46))

\* C1: for every User value, generateMockToken does not fail and decoding
\* the token it returns gives back a User equal to the one encoded.
C1_RoundTrip ==
    /\ codec.pc \in {"encoded", "decoded"} => codec.enc.ok
    /\ codec.pc = "decoded" => ~codec.dec.threw /\ codec.dec.val = codec.user

\* The part of C1 that holds: a User whose strings stay within U+00FF is
\* encoded, and decoded to an equal User.
Latin1(s) == \A i \in 1..Len(s) : s[i] <= 255
Latin1User(u) == \A i \in 1..Len(u.kv) : Latin1(u.kv[i].v.s)
RoundTripWithinLatin1 ==
    /\ codec.pc \in {"encoded", "decoded"} => (codec.enc.ok <=> Latin1User(codec.user))
    /\ codec.pc = "decoded" => ~codec.dec.threw /\ codec.dec.val = codec.user

\* C2: a login with a password other than 'error' resolves, for any email,
\* to a token and a user with that email, and verifyToken of the token
\* resolves to that user.
C2_LoginSucceeds ==
    \A c \in CallIds :
        LoginSettled(c) /\ calls[c].password # S_error =>
            /\ calls[c].out.kind = "resolved"
            /\ Lookup(calls[c].out.val.kv, S_email, 1) = JsStr(calls[c].email)
            /\ verifyToken_body(calls[c].out.token) = Resolved(<<>>, calls[c].out.val)

\* C3: a login with the password 'error' is rejected with 'Invalid
\* credentials', with no token and no user, for any email; nothing is
\* raised before the delay has ended; no other password is rejected so.
C3_ErrorPasswordFails ==
    \A c \in CallIds :
        calls[c].op = "login" =>
            /\ calls[c].pc = "delay" => calls[c].out = Pending
            /\ calls[c].pc = "settled" =>
                   (calls[c].password = S_error
                        <=> calls[c].out = Rejected("Invalid credentials"))

C3_Witness ==
    \E c \in CallIds :
        /\ LoginSettled(c)
        /\ calls[c].password = S_error
        /\ calls[c].email = E_wide
        /\ calls[c].out.kind = "rejected"

\* C4: verifyToken rejects with 'Invalid token' every token that has fewer
\* than three segments between dots.
C4_FewSegmentsRejected ==
    \A c \in CallIds :
        VerifySettled(c) /\ NumSegments(calls[c].token) < 3 =>
            calls[c].out = InvalidToken

\* A token that is malformed: not three segments, or a second segment that
\* is not base64, or one that does not decode to JSON text
Malformed(token) ==
    \/ NumSegments(token) # 3
    \/ ~Atob(Split(token, 46)[2]).ok
    \/ ~JsonParse(Atob(Split(token, 46)[2]).v).ok

\* C5: getCurrentUser returns null when localStorage is undefined, when
\* nothing is stored, when the empty string is stored and when a malformed
\* token is stored.
C5_AbsentOnMalformed ==
    last.op = "getCurrentUser"
    /\ (\/ ~localStorageDefined
        \/ ~slot.present
        \/ slot.val = <<>>
        \/ Malformed(slot.val))
    => last.val = JsNull

\* C6: isAuthenticated returns true exactly when getCurrentUser gives a
\* User; it is false when the stored payload has no user.
C6_AuthenticatedIffUser ==
    last.op = "isAuthenticated" =>
        (last.val = JsBool(TRUE) <=> IsUser(getCurrentUser(localStorageDefined, slot)))

\* C7: verifyToken resolves only to a complete User, and getCurrentUser
\* returns only null or a complete User.
C7_NoGarbageUser ==
    /\ \A c \in CallIds :
           VerifySettled(c) /\ calls[c].out.kind = "resolved" => IsUser(calls[c].out.val)
    /\ last.op = "getCurrentUser" => last.val = JsNull \/ IsUser(last.val)

\* C8: no operation of the module changes the 'auth_token' entry; what
\* getCurrentUser and isAuthenticated return is the same before and after
\* logout; a login that resolves leaves isAuthenticated as it was.
ModuleOps == {"login", "verifyToken", "logout", "getCurrentUser", "isAuthenticated"}
LoginResolves(c) ==
    calls[c].op = "login" /\ calls[c].pc = "delay" /\ calls'[c].out.kind = "resolved"
C8_SlotReadOnly ==
    [][/\ last'.op \in ModuleOps =>
              slot' = slot /\ localStorageDefined' = localStorageDefined
       /\ last'.op = "logout" =>
              /\ getCurrentUser(localStorageDefined', slot')
                    = getCurrentUser(localStorageDefined, slot)
              /\ isAuthenticated(localStorageDefined', slot')
                    = isAuthenticated(localStorageDefined, slot)
       /\ (\E c \in CallIds : LoginResolves(c)) =>
              isAuthenticated(localStorageDefined', slot')
                    = isAuthenticated(localStorageDefined, slot)]_vars

C8_Witness ==
    /\ last.op = "logout"
    /\ slot.present
    /\ slot.val \notin {T_garbage}
    /\ IsUser(getCurrentUser(localStorageDefined, slot))
    /\ \E c \in CallIds : calls[c].pc = "delay"

\* The times the clock takes
Times == {k * (EXP_MS + 1) : k \in 0..MaxTicks}

\* The logins that resolve, by email and time: what each returned and the
\* exp its token carries
Issued ==
    { [at |-> t, out |-> login_body(e, S_pw, t),
       exp |-> ExpOf(login_body(e, S_pw, t).token)] :
        e \in {x \in LoginEmails : Latin1(x)}, t \in Times }

\* C9: a token login returned carries exp = creation time + 3600000, and
\* at any later time, past exp too, verifyToken resolves to the user in it
\* and getCurrentUser returns that user when the token is stored.
C9_ExpiryNotEnforced ==
    \A i \in Issued :
        /\ i.out.kind = "resolved"
        /\ i.exp = JsNum(i.at + EXP_MS)
        /\ \A c \in CallIds :
               VerifySettled(c) /\ calls[c].token = i.out.token =>
                   calls[c].out = Resolved(<<>>, i.out.val)
        /\ last.op = "getCurrentUser" /\ slot = Stored(i.out.token) =>
               last.val = i.out.val

C9_Witness ==
    \E c \in CallIds :
        /\ VerifySettled(c)
        /\ calls[c].token = login_body(E_ascii, S_pw, 0).token
        /\ calls[c].at > EXP_MS
        /\ calls[c].out.kind = "resolved"

\* C10: with a token stored, getCurrentUser returns a value other than
\* null exactly when verifyToken of that token resolves, and then the same
\* value; it returns null exactly when verifyToken rejects.
C10_VerifyAgreesWithLookup ==
    \A c \in CallIds :
        VerifySettled(c) /\ last.op = "getCurrentUser"
        /\ slot = Stored(calls[c].token) =>
            /\ last.val # JsNull <=> calls[c].out.kind = "resolved"
            /\ calls[c].out.kind = "resolved" => calls[c].out.val = last.val
            /\ last.val = JsNull <=> calls[c].out = InvalidToken

\* The part of C10 that holds: the two agree on every non-empty token that
\* verifyToken rejects or resolves to a value other than null.
AgreementOffNull ==
    \A c \in CallIds :
        VerifySettled(c) /\ last.op = "getCurrentUser"
        /\ slot = Stored(calls[c].token)
        /\ calls[c].out # Resolved(<<>>, JsNull) =>
            /\ last.val # JsNull <=> calls[c].out.kind = "resolved"
            /\ calls[c].out.kind = "resolved" => calls[c].out.val = last.val
            /\ last.val = JsNull <=> calls[c].out = InvalidToken

=============================================================================
